---------------------------- MODULE Spec2Model ----------------------------
(***************************************************************************)
(* Alpha-beta game-tree search with a transposition cache and a grid       *)
(* symmetry engine (rusty-solver).                                         *)
(*                                                                         *)
(* The search (src/min_max/mod.rs), the cache (src/min_max/cache.rs), the  *)
(* symmetry engine (src/min_max/symmetry.rs) and the three-in-a-row        *)
(* adapter (src/ttt.rs, src/common.rs) are pure functions of their         *)
(* arguments and of the cache; they are operators here, written in the     *)
(* order of the code.  Board indices are 0..8 as in the source.            *)
(***************************************************************************)
EXTENDS Integers, Sequences, FiniteSets, TLC

VARIABLES
    strategy,     \* the Strategy in use: [game, cache_kind, cache]
    state,        \* the root state handed to score_possible_moves
    max_level,    \* the depth budget (u8)
    pc,           \* the position of the caller: "scoring" | "scored" | "done" |
                  \* "board" (search), "cache", "sym", "detect" | "detected",
                  \* "sym9x9" | "returned" | "panic", "status" | "status_done",
                  \* "board3x3" | "status3x3" | "written", "to_move" | "moved",
                  \* "scoring_in_place" | "scored_in_place", "threads"
    scored,       \* the Vec<ScoredMove> collected so far
    best,         \* the Vec<ScoredMove> returned by alpha_beta
    calls,        \* history: the evaluation calls made for the last root move
    cache_at,     \* history: the cache as it was before each root move
    set_log,      \* history: the (key, entry) pairs given to HashMapCache::cache
    axes,         \* symmetry engine: the axis subset of the descriptor
    index,        \* symmetry engine: the board index asked about
    canonical,    \* symmetry engine: the answer of canonicalize (-1: none yet)
    expanded,     \* symmetry engine: the Vec returned by expand (None: none yet)
    score_board,  \* the [i32; 9] returned by to_score_board (None: none yet)
    board_status, \* the BoardStatus returned by calculate_status (None: none yet)
    lazy_table,   \* the lazy static AXIS_TO_CANONICAL_INDICES_3X3: [once, value,
                  \* building]
    threads       \* the threads that use the table: thread -> [pc, axes, seen]

vars == <<strategy, state, max_level, pc, scored, best, calls, cache_at,
          set_log, axes, index, canonical, expanded, score_board, board_status,
          lazy_table, threads>>

\* Option<T>: None is the empty sequence, Some(x) is <<x>>
None == <<>>
Some(x) == <<x>>

Maximum(a, b) == IF a >= b THEN a ELSE b
Minimum(a, b) == IF a <= b THEN a ELSE b

SetMin(S) == CHOOSE x \in S : \A y \in S : x <= y

(***************************************************************************)
(* Symmetry engine, src/min_max/symmetry.rs                                *)
(***************************************************************************)
GridSymmetryAxis == <<"Vertical", "Horizontal", "DiagonalTopBottom", "DiagonalBottomTop">>

AllAxes == {GridSymmetryAxis[k] : k \in 1..Len(GridSymmetryAxis)}

BoardIndices == 0..8

\* GridSymmetryAxisContext3x3::symmetric_indices
symmetric_indices(axis) ==
    CASE axis = "Vertical"          -> << <<0, 2>>, <<3, 5>>, <<6, 8>> >>
      [] axis = "Horizontal"        -> << <<0, 6>>, <<1, 7>>, <<2, 8>> >>
      [] axis = "DiagonalTopBottom" -> << <<1, 3>>, <<2, 6>>, <<5, 7>> >>
      [] axis = "DiagonalBottomTop" -> << <<0, 8>>, <<1, 5>>, <<3, 7>> >>

\* the filter_map of expand_index over the pairs from position k on
RECURSIVE ExpandPairs(_, _, _)
ExpandPairs(pairs, k, idx) ==
    IF k > Len(pairs) THEN <<>>
    ELSE LET first == pairs[k][1]
             second == pairs[k][2]
             here == IF idx = first THEN <<second>>
                     ELSE IF idx = second THEN <<first>>
                     ELSE <<>>
         IN here \o ExpandPairs(pairs, k + 1, idx)

\* a wrong expand_index: the index itself is left out of the result
expand_index_pairs_only(axis, idx) == ExpandPairs(symmetric_indices(axis), 1, idx)

\* GridSymmetryAxisContext::expand_index
expand_index(axis, idx) == <<idx>> \o ExpandPairs(symmetric_indices(axis), 1, idx)

SeqToSet(s) == {s[k] : k \in 1..Len(s)}

\* one round of the loop body: current.extend(...) for every index of old
ExtendCurrent(axis_set, current, old) ==
    current \cup UNION {SeqToSet(expand_index(a, i)) : a \in axis_set, i \in old}

\* a wrong closure: one pass over the axes, each applied once to the index
\* reached so far (second -> first), as the superseded normalise did
SinglePassClosure(axis_set, current, old) ==
    LET RECURSIVE Pass(_, _)
        Pass(k, i) ==
            IF k > Len(GridSymmetryAxis) THEN i
            ELSE IF GridSymmetryAxis[k] \notin axis_set THEN Pass(k + 1, i)
            ELSE LET hit == {p \in SeqToSet(symmetric_indices(GridSymmetryAxis[k])) : p[2] = i}
                 IN Pass(k + 1, IF hit = {} THEN i ELSE (CHOOSE p \in hit : TRUE)[1])
    IN current \cup {Pass(1, SetMin(current))}

\* the fixpoint loop of generate_axis_to_canonical_indices: returns `current`
\* as it is when the loop breaks
RECURSIVE FixpointLoop(_, _, _)
FixpointLoop(axis_set, current, old) ==
    LET extended == ExtendCurrent(axis_set, current, old)
    IN IF extended = old THEN extended
       ELSE FixpointLoop(axis_set, old, extended)   \* mem::swap(&mut current, &mut old)

\* generate_axis_to_canonical_indices: the table of one axis subset
canonical_indices(axis_set) ==
    [original_index \in BoardIndices |->
        SetMin(FixpointLoop(axis_set, {original_index}, {original_index}))]

\* AXIS_TO_CANONICAL_INDICES_3X3 (built once, for the powerset of the axes)
AXIS_TO_CANONICAL_INDICES_3X3 == [axis_set \in SUBSET AllAxes |-> canonical_indices(axis_set)]

\* lazy_static!: the static before its first use; once is the state of the
\* Once that guards the initializer, value the cell the initializer's result
\* is written to, building the HashMap the initializer has collected so far
LazyNew == [once |-> "INCOMPLETE", value |-> None, building |-> [k \in {} |-> k]]

\* GridSymmetryAxis::iter().powerset(): the subsets by size, then in the order
\* of the enum
Powerset == << {},
               {"Vertical"}, {"Horizontal"}, {"DiagonalTopBottom"}, {"DiagonalBottomTop"},
               {"Vertical", "Horizontal"}, {"Vertical", "DiagonalTopBottom"},
               {"Vertical", "DiagonalBottomTop"}, {"Horizontal", "DiagonalTopBottom"},
               {"Horizontal", "DiagonalBottomTop"},
               {"DiagonalTopBottom", "DiagonalBottomTop"},
               {"Vertical", "Horizontal", "DiagonalTopBottom"},
               {"Vertical", "Horizontal", "DiagonalBottomTop"},
               {"Vertical", "DiagonalTopBottom", "DiagonalBottomTop"},
               {"Horizontal", "DiagonalTopBottom", "DiagonalBottomTop"},
               AllAxes >>

\* a wrong guard: a thread that finds the initializer running does not wait
once_blocks_never(once) == FALSE

\* Once::call_once: a thread that finds the initializer running waits for it
once_blocks(once) == once = "RUNNING"

\* GridSymmetryAxisContext3x3::canonicalization_mapping
canonicalization_mapping(axis_set) == AXIS_TO_CANONICAL_INDICES_3X3[axis_set]

\* GridSymmetry::new
GridSymmetryNew(axis_set) ==
    [axes |-> axis_set, canonical_index |-> canonicalization_mapping(axis_set)]

\* GridSymmetry::canonicalize
canonicalize(symmetry, target) == symmetry.canonical_index[target]


\* GridSymmetry::expand: the flat_map over the active axes, in axis order
RECURSIVE ExpandAxes(_, _, _)
ExpandAxes(axis_set, k, normalised) ==
    IF k > Len(GridSymmetryAxis) THEN <<>>
    ELSE (IF GridSymmetryAxis[k] \in axis_set
          THEN expand_index(GridSymmetryAxis[k], normalised) ELSE <<>>)
         \o ExpandAxes(axis_set, k + 1, normalised)

expand(symmetry, normalised) == ExpandAxes(symmetry.axes, 1, normalised)

\* a wrong test: only the first pair of the axis is compared
all_pairs_match_first_only(cells, pairs, k) ==
    cells[pairs[1][1]] = cells[pairs[1][2]]

\* .iter().all(|(f, s)| cells[*f] == cells[*s]) from pair k on: stops at the
\* first pair that differs
RECURSIVE all_pairs_match(_, _, _)
all_pairs_match(cells, pairs, k) ==
    IF k > Len(pairs) THEN TRUE
    ELSE IF cells[pairs[k][1]] # cells[pairs[k][2]] THEN FALSE
    ELSE all_pairs_match(cells, pairs, k + 1)

\* GridSymmetryAxis::iter().filter(..) from axis k on, in the order of the enum
RECURSIVE filter_axes(_, _)
filter_axes(cells, k) ==
    IF k > Len(GridSymmetryAxis) THEN <<>>
    ELSE (IF all_pairs_match(cells, symmetric_indices(GridSymmetryAxis[k]), 1)
          THEN <<GridSymmetryAxis[k]>> ELSE <<>>)
         \o filter_axes(cells, k + 1)

\* From<&[C; 9]> for GridSymmetry3x3 (Board3x3::symmetry)
symmetry_from(cells) == GridSymmetryNew(SeqToSet(filter_axes(cells, 1)))

(***************************************************************************)
(* Players, src/min_max/mod.rs                                             *)
(***************************************************************************)
Player == {"Min", "Max"}

\* a wrong not: the player is handed on unchanged
Not_same(player) == player

\* impl Not for Player
Not(player) == IF player = "Min" THEN "Max" ELSE "Min"

(***************************************************************************)
(* The three-in-a-row adapter, src/ttt.rs and src/common.rs                *)
(***************************************************************************)
CellState == {"EMPTY", "X", "O"}

\* impl From<Player> for CellState
CellStateFrom(player) == IF player = "Max" THEN "X" ELSE "O"

\* Board3x3::WIN_INDICES
WIN_INDICES == << <<0, 1, 2>>, <<3, 4, 5>>, <<6, 7, 8>>, <<0, 3, 6>>,
                 <<1, 4, 7>>, <<2, 5, 8>>, <<0, 4, 8>>, <<2, 4, 6>> >>

\* Board3x3::new
GameBoardNew(cells, last_player) == [cells |-> cells, last_player |-> last_player]

\* a wrong line test: three EMPTY cells in a line count as complete
IsWinningLine_any_equal(cells, indices) ==
    /\ cells[indices[1]] = cells[indices[2]]
    /\ cells[indices[2]] = cells[indices[3]]

IsWinningLine(cells, indices) ==
    /\ cells[indices[1]] = cells[indices[2]]
    /\ cells[indices[2]] = cells[indices[3]]
    /\ cells[indices[1]] # "EMPTY"

\* Board3x3::winning_indices: the first line of WIN_INDICES that is complete
winning_indices(board) ==
    LET found == {k \in 1..Len(WIN_INDICES) : IsWinningLine(board.cells, WIN_INDICES[k])}
    IN IF found = {} THEN None ELSE Some(WIN_INDICES[SetMin(found)])

\* GameBoard::status
ttt_status(board) ==
    LET indices == winning_indices(board)
    IN IF indices # None
       THEN (CASE board.cells[indices[1][1]] = "X" -> "MaxWon"
               [] board.cells[indices[1][1]] = "O" -> "MinWon"
               [] OTHER -> "Panic")
       ELSE IF \E c \in BoardIndices : board.cells[c] = "EMPTY" THEN "Ongoing"
       ELSE "Draw"

\* a wrong default_score: the perspective of the asking player is ignored
default_score_no_perspective(status, player) ==
    IF status = "MaxWon" THEN 1
    ELSE IF status = "MinWon" THEN -1
    ELSE 0

\* common::default_score
default_score(status, player) ==
    IF status = "MaxWon" THEN (IF player = "Max" THEN 1 ELSE -1)
    ELSE IF status = "MinWon" THEN (IF player = "Min" THEN 1 ELSE -1)
    ELSE 0

\* the index order of ttt::Strategy::possible_moves
TttMoveOrder == <<4, 0, 1, 2, 3, 5, 6, 7, 8>>

\* the filter_map closure of ttt::Strategy::possible_moves from position k,
\* with covered_index as the set of canonical indices already yielded
RECURSIVE TttMovesFrom(_, _, _, _)
TttMovesFrom(cells, symmetry, k, covered_index) ==
    IF k > Len(TttMoveOrder) THEN <<>>
    ELSE LET i == TttMoveOrder[k]
             normalised == canonicalize(symmetry, i)
         IN IF cells[i] # "EMPTY" THEN TttMovesFrom(cells, symmetry, k + 1, covered_index)
            ELSE IF normalised \in covered_index
                 THEN TttMovesFrom(cells, symmetry, k + 1, covered_index)
            ELSE <<[index |-> normalised, symmetry |-> symmetry]>>
                 \o TttMovesFrom(cells, symmetry, k + 1, covered_index \cup {normalised})

\* ttt::Strategy::possible_moves
ttt_possible_moves(board) == TttMovesFrom(board.cells, symmetry_from(board.cells), 1, {})

\* what stands for the state after a panic!(): no cell can be played
Panicked(player) == [cells |-> [c \in BoardIndices |-> "PANIC"], last_player |-> player]

\* ttt::Strategy::do_move
ttt_do_move(board, move, player) ==
    IF board.cells[move.index] = "EMPTY"
    THEN [cells |-> [board.cells EXCEPT ![move.index] = CellStateFrom(player)],
          last_player |-> player]
    ELSE Panicked(player)

\* ttt::Strategy::score
ttt_score(board, player) == default_score(ttt_status(board), player)

(***************************************************************************)
(* The stoplight adapter, src/stoplight.rs                                 *)
(***************************************************************************)
StoplightCellState == {"EMPTY", "GREEN", "YELLOW", "RED"}

\* Board::symmetry
stoplight_symmetry(board) == GridSymmetryNew(SeqToSet(filter_axes(board.cells, 1)))

\* a wrong test: a RED cell is offered as well
stoplight_skipped_never(cell_state) == FALSE

\* if cell_state == CellState::RED { continue; }
stoplight_skipped(cell_state) == cell_state = "RED"

\* the for loop of stoplight::Strategy::possible_moves from index on, with
\* covered_index as the set of canonical indices already pushed
RECURSIVE StoplightMovesFrom(_, _, _, _)
StoplightMovesFrom(cells, symmetry, idx, covered_index) ==
    IF idx > 8 THEN <<>>
    ELSE LET normalised == canonicalize(symmetry, idx)
         IN IF stoplight_skipped(cells[idx])
            THEN StoplightMovesFrom(cells, symmetry, idx + 1, covered_index)
            ELSE IF normalised \in covered_index
                 THEN StoplightMovesFrom(cells, symmetry, idx + 1, covered_index)
            ELSE <<[index |-> idx, symmetry |-> symmetry]>>
                 \o StoplightMovesFrom(cells, symmetry, idx + 1,
                                       covered_index \cup {normalised})

\* stoplight::Strategy::possible_moves
stoplight_possible_moves(board) ==
    StoplightMovesFrom(board.cells, stoplight_symmetry(board), 0, {})

\* stoplight::Strategy::do_move
stoplight_do_move(board, move, player) ==
    IF board.cells[move.index] = "RED" THEN Panicked(player)
    ELSE [cells |-> [board.cells EXCEPT ![move.index] =
                        CASE board.cells[move.index] = "EMPTY"  -> "GREEN"
                          [] board.cells[move.index] = "GREEN"  -> "YELLOW"
                          [] board.cells[move.index] = "YELLOW" -> "RED"],
          last_player |-> player]

(***************************************************************************)
(* A second family of adapters of the Strategy trait: take-away games.     *)
(* A state is the number of tokens left and the player who moved last; a   *)
(* move takes game.takes[k] tokens; game.val[n] is the score of n tokens   *)
(* left for the player who moved last.  Equal states are reached along     *)
(* paths of different length (1+1+1 = 3).                                  *)
(***************************************************************************)
take_possible_moves(game, s) == SelectSeq(game.takes, LAMBDA t : t <= s.n)

take_do_move(game, s, move, player) == [n |-> s.n - move, last_player |-> player]

take_score(game, s, player) ==
    IF s.last_player = player THEN game.val[s.n] ELSE -game.val[s.n]

(***************************************************************************)
(* trait Strategy, src/min_max/mod.rs: dispatch on the adapter             *)
(***************************************************************************)
possible_moves(game, s) ==
    IF game.kind = "ttt" THEN ttt_possible_moves(s) ELSE take_possible_moves(game, s)

do_move(game, s, move, player) ==
    IF game.kind = "ttt" THEN ttt_do_move(s, move, player)
    ELSE take_do_move(game, s, move, player)

score(game, s, player) ==
    IF game.kind = "ttt" THEN ttt_score(s, player) ELSE take_score(game, s, player)

(***************************************************************************)
(* Transposition cache, src/min_max/cache.rs                               *)
(***************************************************************************)
CacheFlag == {"Exact", "LowerBound", "UpperBound"}

CacheEntry(level, flag, value) == [value |-> value, level |-> level, flag |-> flag]

\* HashMap::default(): no key
EmptyMap == [k \in {} |-> k]

\* a wrong insert: an entry of greater level is kept (depth-preferred)
HashMapCache_cache_keep_deeper(map, key, entry) ==
    IF key \in DOMAIN map /\ map[key].level > entry.level THEN map
    ELSE [k \in DOMAIN map \cup {key} |-> IF k = key THEN entry ELSE map[k]]

\* HashMapCache::cache: self.0.insert(state.clone(), entry)
HashMapCache_cache(map, key, entry) ==
    [k \in DOMAIN map \cup {key} |-> IF k = key THEN entry ELSE map[k]]

\* HashMapCache::lookup: self.0.get(state).cloned()
HashMapCache_lookup(map, key) == IF key \in DOMAIN map THEN Some(map[key]) ELSE None

\* strategy.cache().set(state, entry), for HashMapCache and for NullCache
cache_set(strat, s, entry) ==
    IF strat.cache_kind = "HashMapCache"
    THEN [strat EXCEPT !.cache = HashMapCache_cache(strat.cache, s, entry)]
    ELSE strat

\* strategy.cache().get(state), for HashMapCache and for NullCache
cache_get(strat, s) ==
    IF strat.cache_kind = "HashMapCache" THEN HashMapCache_lookup(strat.cache, s) ELSE None

(***************************************************************************)
(* The search, src/min_max/mod.rs.  Scores are i32; with |score| <= 1 and  *)
(* a u8 depth no product or negation leaves the i32 range.                 *)
(***************************************************************************)
I32_MAX == 2147483647

U8_MAX == 255

ScoredMove(s, m) == [score |-> s, min_max_move |-> m]

\* strategy.score(state, player) * (i32::from(remaining_levels) + 1)
leaf_score(strat, s, player, remaining_levels) ==
    score(strat.game, s, player) * (remaining_levels + 1)

\* a wrong depth test: the comparison is turned around
entry_usable_flipped(entry, remaining_levels) == entry.level <= remaining_levels

\* if entry.level >= remaining_levels
entry_usable(entry, remaining_levels) == entry.level >= remaining_levels

\* the cache lookup of alpha_beta_eval_single_move: ret says that the call
\* returns value at once; otherwise alpha and beta are the window to go on with
cache_probe(found, remaining_levels, alpha, beta) ==
    IF found = None
    THEN [ret |-> FALSE, value |-> 0, alpha |-> alpha, beta |-> beta]
    ELSE LET entry == found[1]
         IN IF ~entry_usable(entry, remaining_levels)
            THEN [ret |-> FALSE, value |-> 0, alpha |-> alpha, beta |-> beta]
            ELSE IF entry.flag = "Exact"
            THEN [ret |-> TRUE, value |-> entry.value, alpha |-> alpha, beta |-> beta]
            ELSE LET a == IF entry.flag = "LowerBound"
                          THEN Maximum(alpha, entry.value) ELSE alpha
                     b == IF entry.flag = "UpperBound"
                          THEN Minimum(beta, entry.value) ELSE beta
                 IN [ret |-> a >= b, value |-> entry.value, alpha |-> a, beta |-> b]

\* a wrong classification: a maximum equal to the original alpha is not an
\* UpperBound
classify_strict_upper(max_score, alpha_original, beta) ==
    IF max_score < alpha_original THEN "UpperBound"
    ELSE IF max_score >= beta THEN "LowerBound"
    ELSE "Exact"

\* the flag of the entry stored after the loop
classify(max_score, alpha_original, beta) ==
    IF max_score <= alpha_original THEN "UpperBound"
    ELSE IF max_score >= beta THEN "LowerBound"
    ELSE "Exact"

\* a wrong fold: the child's value is not negated
fold_child_not_negated(max_score, child_value) == Maximum(max_score, child_value)

\* max_score.max(-alpha_beta_eval_single_move(..))
fold_child(max_score, child_value) == Maximum(max_score, -child_value)

\* history: what one evaluation call was given, found and did
CallRecord(s, player, level, alpha, beta, found, probe, exit, value, stored, visited) ==
    [state |-> s, player |-> player, remaining_levels |-> level,
     alpha |-> alpha, beta |-> beta, found |-> found,
     alpha_used |-> probe.alpha, beta_used |-> probe.beta,
     exit |-> exit, value |-> value, stored |-> stored, visited |-> visited]

NoProbe(alpha, beta) == [ret |-> FALSE, value |-> 0, alpha |-> alpha, beta |-> beta]

RECURSIVE alpha_beta_eval_single_move(_, _, _, _, _, _)
RECURSIVE eval_moves(_, _, _, _, _, _, _, _, _)

\* the for loop of alpha_beta_eval_single_move from move k on;
\* the result is [max_score, strategy, calls, visited], visited the number of
\* the last move tried
eval_moves(strat, s, player, remaining_levels, moves, k, alpha, beta, max_score) ==
    LET next_state == do_move(strat.game, s, moves[k], player)
        child == alpha_beta_eval_single_move(strat, next_state, Not(player),
                                             remaining_levels - 1, -beta, -alpha)
        new_max == fold_child(max_score, child.value)
        new_alpha == Maximum(alpha, new_max)
    IN IF new_alpha >= beta \/ k = Len(moves)
       THEN [max_score |-> new_max, strategy |-> child.strategy, calls |-> child.calls,
             visited |-> k]
       ELSE LET rest == eval_moves(child.strategy, s, player, remaining_levels, moves,
                                   k + 1, new_alpha, beta, new_max)
            IN [max_score |-> rest.max_score, strategy |-> rest.strategy,
                calls |-> child.calls \o rest.calls, visited |-> rest.visited]

\* alpha_beta_eval_single_move; the result is [value, strategy, calls], the
\* strategy with the cache as the call leaves it
alpha_beta_eval_single_move(strat, s, player, remaining_levels, alpha, beta) ==
    IF remaining_levels = 0
    THEN LET v == leaf_score(strat, s, player, remaining_levels)
         IN [value |-> v, strategy |-> strat,
             calls |-> <<CallRecord(s, player, remaining_levels, alpha, beta, None,
                                    NoProbe(alpha, beta), "depth", v, None, 0)>>]
    ELSE
    LET alpha_original == alpha
        found == cache_get(strat, s)
        probe == cache_probe(found, remaining_levels, alpha, beta)
    IN IF probe.ret
       THEN [value |-> probe.value, strategy |-> strat,
             calls |-> <<CallRecord(s, player, remaining_levels, alpha, beta, found,
                                    probe, "cache", probe.value, None, 0)>>]
       ELSE
       LET moves == possible_moves(strat.game, s)
       IN IF moves = <<>>
          THEN LET v == leaf_score(strat, s, player, remaining_levels)
               IN [value |-> v, strategy |-> strat,
                   calls |-> <<CallRecord(s, player, remaining_levels, alpha, beta, found,
                                          probe, "terminal", v, None, 0)>>]
          ELSE
          LET loop == eval_moves(strat, s, player, remaining_levels, moves, 1,
                                 probe.alpha, probe.beta, -I32_MAX)
              entry == CacheEntry(remaining_levels,
                                  classify(loop.max_score, alpha_original, probe.beta),
                                  loop.max_score)
          IN [value |-> loop.max_score,
              strategy |-> cache_set(loop.strategy, s, entry),
              calls |-> <<CallRecord(s, player, remaining_levels, alpha, beta, found,
                                     probe, "expanded", loop.max_score, Some(entry),
                                     loop.visited)>>
                        \o loop.calls]

\* the u8 subtraction level - 1 overflows
u8_pred_overflows(level) == level = 0

\* the u8 subtraction level - 1 as it is without overflow checks (wrapping);
\* with overflow checks it panics where u8_pred_overflows
u8_pred(level) == (level - 1) % (U8_MAX + 1)

\* a wrong closure: the root child is evaluated for Max and not negated
score_root_move_as_max(strat, s, m, level) ==
    LET next_state == do_move(strat.game, s, m, "Max")
        r == alpha_beta_eval_single_move(strat, next_state, "Max", u8_pred(level),
                                         -I32_MAX, I32_MAX)
    IN [score |-> r.value, strategy |-> r.strategy, calls |-> r.calls]

\* the closure of score_possible_moves for the root move m;
\* the result is [score, strategy, calls]
score_root_move(strat, s, m, level) ==
    LET next_state == do_move(strat.game, s, m, "Max")
        r == alpha_beta_eval_single_move(strat, next_state, "Min", u8_pred(level),
                                         -I32_MAX, I32_MAX)
    IN [score |-> -r.value, strategy |-> r.strategy, calls |-> r.calls]

\* score_possible_moves as one function: the map over the moves from move k
\* on, the strategy (and its cache) handed from one closure call to the next
RECURSIVE score_moves_from(_, _, _, _, _)
score_moves_from(strat, s, moves, k, level) ==
    IF k > Len(moves) THEN <<>>
    ELSE LET r == score_root_move(strat, s, moves[k], level)
         IN <<ScoredMove(r.score, moves[k])>>
            \o score_moves_from(r.strategy, s, moves, k + 1, level)

score_possible_moves(strat, s, level) ==
    score_moves_from(strat, s, possible_moves(strat.game, s), 1, level)

\* a wrong all_max: on a tie the later item replaces the earlier ones
RECURSIVE all_max_last_tie(_, _, _, _)
all_max_last_tie(items, k, max, maxs) ==
    IF k > Len(items) THEN maxs
    ELSE IF max.score <= items[k].score
         THEN all_max_last_tie(items, k + 1, items[k], <<items[k]>>)
    ELSE all_max_last_tie(items, k + 1, max, maxs)

\* the for loop of all_max (src/min_max.rs) from item k on, ordering by score
RECURSIVE all_max_from(_, _, _, _)
all_max_from(items, k, max, maxs) ==
    IF k > Len(items) THEN maxs
    ELSE IF max.score < items[k].score
         THEN all_max_from(items, k + 1, items[k], <<items[k]>>)
    ELSE IF max.score = items[k].score
         THEN all_max_from(items, k + 1, max, Append(maxs, items[k]))
    ELSE all_max_from(items, k + 1, max, maxs)

\* all_max: Option<Vec<Item>>
all_max(items) ==
    IF items = <<>> THEN None
    ELSE Some(all_max_from(items, 2, items[1], <<items[1]>>))

\* alpha_beta of src/min_max/mod.rs: the max set of the scored moves (an
\* empty Vec when there is no move)
alpha_beta_result(items) == IF all_max(items) = None THEN <<>> ELSE all_max(items)[1]

(***************************************************************************)
(* The in-place search, src/min_max.rs: one state, edited by do_move and   *)
(* restored by undo_move.  Its adapters are the take-away games: undo_move *)
(* puts the tokens back and makes the other player the last mover again.   *)
(***************************************************************************)
take_undo_move(game, s, move, player) == [n |-> s.n + move, last_player |-> Not(player)]

\* MinMaxStrategy::is_terminal of the take-away adapters: no move is left
take_is_terminal(game, s) == take_possible_moves(game, s) = <<>>

\* a wrong loop: the tokens are put back, the last mover is not
undo_after_child_keeps_mover(game, s, m, player) == [s EXCEPT !.n = s.n + m]

\* STRATEGY::undo_move(state, &m, player) after the nested call, before alpha
\* is raised and the cutoff is tested
undo_after_child(game, s, m, player) == take_undo_move(game, s, m, player)

\* history: the state as a node's evaluation found it and as it left it, how
\* the evaluation ended and the number of the last move it tried
NodeRecord(before, after, exit, visited) == [before |-> before, after |-> after, exit |-> exit, visited |-> visited]

RECURSIVE alpha_beta_eval(_, _, _, _, _, _)
RECURSIVE in_place_moves(_, _, _, _, _, _, _, _, _)

\* the for loop of alpha_beta_eval from move k on; s is the one state, as it
\* is when move k is tried; the result is [max_score, strategy, state, nodes,
\* visited], visited the number of the last move tried
in_place_moves(strat, s, player, remaining_levels, moves, k, alpha, beta, max_score) ==
    LET moved == take_do_move(strat.game, s, moves[k], player)
        child == alpha_beta_eval(strat, moved, Not(player), remaining_levels - 1,
                                 -beta, -alpha)
        new_max == Maximum(max_score, -child.value)
        undone == undo_after_child(strat.game, child.state, moves[k], player)
        new_alpha == Maximum(alpha, new_max)
    IN IF new_alpha >= beta \/ k = Len(moves)
       THEN [max_score |-> new_max, strategy |-> child.strategy, state |-> undone,
             nodes |-> child.nodes, visited |-> k]
       ELSE LET rest == in_place_moves(child.strategy, undone, player, remaining_levels,
                                       moves, k + 1, new_alpha, beta, new_max)
            IN [max_score |-> rest.max_score, strategy |-> rest.strategy,
                state |-> rest.state, nodes |-> child.nodes \o rest.nodes,
                visited |-> rest.visited]

\* alpha_beta_eval of src/min_max.rs; the result is [value, strategy, state,
\* nodes], state the one state as the call leaves it
alpha_beta_eval(strat, s, player, remaining_levels, alpha, beta) ==
    LET alpha_original == alpha
        found == cache_get(strat, s)
        probe == cache_probe(found, remaining_levels, alpha, beta)
    IN IF probe.ret
       THEN [value |-> probe.value, strategy |-> strat, state |-> s,
             nodes |-> <<NodeRecord(s, s, "cache", 0)>>]
       ELSE IF take_is_terminal(strat.game, s) \/ remaining_levels = 0
       THEN [value |-> take_score(strat.game, s, player) * (remaining_levels + 1),
             strategy |-> strat, state |-> s,
             nodes |-> <<NodeRecord(s, s, "leaf", 0)>>]
       ELSE
       LET loop == in_place_moves(strat, s, player, remaining_levels,
                                  take_possible_moves(strat.game, s), 1,
                                  probe.alpha, probe.beta, -I32_MAX)
           entry == CacheEntry(remaining_levels,
                               classify(loop.max_score, alpha_original, probe.beta),
                               loop.max_score)
       IN [value |-> loop.max_score,
           strategy |-> cache_set(loop.strategy, loop.state, entry),
           state |-> loop.state,
           nodes |-> <<NodeRecord(s, loop.state, "expanded", loop.visited)>> \o loop.nodes]

\* the closure of all_moves_scored for the root move m;
\* the result is [score, strategy, state, nodes]
in_place_root_move(strat, s, m, level) ==
    LET moved == take_do_move(strat.game, s, m, "Max")
        r == alpha_beta_eval(strat, moved, "Min", u8_pred(level), -I32_MAX, I32_MAX)
    IN [score |-> -r.value, strategy |-> r.strategy,
        state |-> take_undo_move(strat.game, r.state, m, "Max"), nodes |-> r.nodes]

\* GridSymmetryAxisContext9x9::symmetric_indices
symmetric_indices_9x9(axis) ==
    CASE axis = "Vertical" ->
        <<
           <<0, 72>>, <<1, 73>>, <<2, 74>>, <<3, 75>>, <<4, 76>>, <<5, 77>>,
           <<6, 78>>, <<7, 79>>, <<8, 80>>, <<9, 63>>, <<10, 64>>, <<11, 65>>,
           <<12, 66>>, <<13, 67>>, <<14, 68>>, <<15, 69>>, <<16, 70>>, <<17, 71>>,
           <<18, 54>>, <<19, 55>>, <<20, 56>>, <<21, 57>>, <<22, 58>>, <<23, 59>>,
           <<24, 60>>, <<25, 61>>, <<26, 62>>, <<27, 45>>, <<28, 46>>, <<29, 47>>,
           <<30, 48>>, <<31, 49>>, <<32, 50>>, <<33, 51>>, <<34, 52>>, <<35, 53>> >>
      [] axis = "Horizontal" ->
        <<
           <<0, 8>>, <<9, 17>>, <<18, 26>>, <<27, 35>>, <<36, 44>>, <<45, 53>>,
           <<54, 62>>, <<63, 71>>, <<72, 80>>, <<1, 7>>, <<10, 16>>, <<19, 25>>,
           <<28, 34>>, <<37, 43>>, <<46, 52>>, <<55, 61>>, <<64, 70>>, <<73, 79>>,
           <<2, 6>>, <<11, 15>>, <<20, 24>>, <<29, 33>>, <<38, 42>>, <<47, 51>>,
           <<56, 60>>, <<65, 69>>, <<74, 78>>, <<3, 5>>, <<12, 14>>, <<21, 23>>,
           <<30, 32>>, <<39, 41>>, <<48, 50>>, <<57, 59>>, <<66, 68>>, <<75, 77>> >>
      [] axis = "DiagonalTopBottom" ->
        <<
           <<1, 9>>, <<2, 18>>, <<3, 27>>, <<4, 36>>, <<5, 45>>, <<6, 54>>,
           <<7, 63>>, <<8, 72>>, <<11, 19>>, <<12, 28>>, <<13, 37>>, <<14, 46>>,
           <<15, 55>>, <<16, 64>>, <<17, 73>>, <<21, 29>>, <<22, 38>>, <<23, 47>>,
           <<24, 56>>, <<25, 65>>, <<26, 74>>, <<31, 39>>, <<32, 48>>, <<33, 57>>,
           <<34, 66>>, <<35, 75>>, <<41, 49>>, <<42, 58>>, <<43, 67>>, <<44, 76>>,
           <<51, 59>>, <<52, 68>>, <<53, 77>>, <<61, 69>>, <<62, 78>>, <<71, 79>> >>
      [] axis = "DiagonalBottomTop" ->
        <<
           <<0, 80>>, <<1, 71>>, <<2, 62>>, <<3, 53>>, <<4, 44>>, <<5, 35>>,
           <<6, 26>>, <<7, 17>>, <<9, 79>>, <<10, 70>>, <<11, 61>>, <<12, 52>>,
           <<13, 43>>, <<14, 34>>, <<15, 25>>, <<18, 78>>, <<19, 69>>, <<20, 60>>,
           <<21, 51>>, <<22, 42>>, <<23, 33>>, <<27, 77>>, <<28, 68>>, <<29, 59>>,
           <<30, 50>>, <<31, 41>>, <<36, 76>>, <<37, 67>>, <<38, 58>>, <<39, 49>>,
           <<45, 75>>, <<46, 66>>, <<47, 57>>, <<54, 74>>, <<55, 65>>, <<63, 73>> >>

\* GridSymmetryAxisContext::expand_index in the 9x9 context
expand_index_9x9(axis, idx) == <<idx>> \o ExpandPairs(symmetric_indices_9x9(axis), 1, idx)

\* one round of the loop body in the 9x9 context
ExtendCurrent9x9(axis_set, current, old) ==
    current \cup UNION {SeqToSet(expand_index_9x9(a, i)) : a \in axis_set, i \in old}

\* the fixpoint loop of generate_axis_to_canonical_indices in the 9x9 context
RECURSIVE FixpointLoop9x9(_, _, _)
FixpointLoop9x9(axis_set, current, old) ==
    LET extended == ExtendCurrent9x9(axis_set, current, old)
    IN IF extended = old THEN extended
       ELSE FixpointLoop9x9(axis_set, old, extended)

\* generate_axis_to_canonical_indices::<GridSymmetryAxisContext9x9>: the table
\* of one axis subset, built for the original indices (0..=8)
canonical_indices_9x9(axis_set) ==
    [original_index \in BoardIndices |->
        SetMin(FixpointLoop9x9(axis_set, {original_index}, {original_index}))]

\* AXIS_TO_CANONICAL_INDICES_9X9
AXIS_TO_CANONICAL_INDICES_9X9 ==
    [axis_set \in SUBSET AllAxes |-> canonical_indices_9x9(axis_set)]

\* GridSymmetryAxisContext9x9::canonicalization_mapping
canonicalization_mapping_9x9(axis_set) == AXIS_TO_CANONICAL_INDICES_9X9[axis_set]

\* GridSymmetry9x9::new
GridSymmetry9x9New(axis_set) ==
    [axes |-> axis_set, canonical_index |-> canonicalization_mapping_9x9(axis_set)]

\* the positions of the 9x9 grid
Positions9x9 == 0..80

\* GridSymmetry::canonicalize panics: the debug_assert (target <= 8) fails, or
\* without debug assertions the index is outside the Vec
canonicalize_panics(symmetry, target) ==
    target > 8 \/ target \notin DOMAIN symmetry.canonical_index

(***************************************************************************)
(* The composite board, src/ultimate_ttt.rs                                *)
(***************************************************************************)
BoardStatus == {"MaxWon", "MinWon", "Draw", "Ongoing"}

\* a SubBoard, as far as calculate_status reads it
SubBoard(status) == [status |-> status]

\* the number of entries of statuses that equal status
count_status(statuses, status) == Cardinality({i \in BoardIndices : statuses[i] = status})

\* a wrong calculate_status: an Ongoing sub-board is looked for before a line
calculate_status_ongoing_first(sub_boards, last_player) ==
    LET cells == [i \in BoardIndices |->
                    CASE sub_boards[i].status = "MaxWon" -> "X"
                      [] sub_boards[i].status = "MinWon" -> "O"
                      [] OTHER -> "EMPTY"]
    IN IF \E i \in BoardIndices : sub_boards[i].status = "Ongoing" THEN "Ongoing"
       ELSE IF ttt_status(GameBoardNew(cells, last_player)) \in {"Ongoing", "Draw"} THEN "Draw"
       ELSE ttt_status(GameBoardNew(cells, last_player))

\* calculate_status
calculate_status(sub_boards, last_player) ==
    LET statuses == [i \in BoardIndices |-> sub_boards[i].status]
        cells == [i \in BoardIndices |->
                    CASE statuses[i] = "MaxWon" -> "X"
                      [] statuses[i] = "MinWon" -> "O"
                      [] OTHER -> "EMPTY"]
        overall_ttt_board == GameBoardNew(cells, last_player)
        min_wins == count_status(statuses, "MinWon")
        max_wins == count_status(statuses, "MaxWon")
    IN IF ttt_status(overall_ttt_board) = "Ongoing"
       THEN IF \E i \in BoardIndices : statuses[i] = "Ongoing" THEN "Ongoing"
            ELSE IF min_wins > max_wins THEN "MinWon"
            ELSE IF max_wins > min_wins THEN "MaxWon"
            ELSE "Draw"
       ELSE ttt_status(overall_ttt_board)

(***************************************************************************)
(* Inputs                                                                  *)
(***************************************************************************)
MaxTokens == 4
MaxLevel == 4
MaxSets == 3

Scores == {-1, 0, 1}

TakeOrders == {<<1, 3>>, <<3, 1>>, <<1, 2, 3>>, <<3, 2, 1>>}

\* the root is never scored: its own val is left 0
TakeGames == {[kind |-> "take", takes |-> t, val |-> v] :
                 t \in TakeOrders,
                 v \in {w \in [0..MaxTokens -> Scores] : w[MaxTokens] = 0}}

TakeRoot == [n |-> MaxTokens, last_player |-> "Min"]

TttGame == [kind |-> "ttt"]

Count(cells, c) == Cardinality({i \in BoardIndices : cells[i] = c})

\* boards with Max (X) to move: as many X as O, no line complete
TttRootsWith(empties) ==
    {GameBoardNew(cells, "Min") : cells \in
        {c \in [BoardIndices -> CellState] :
            /\ Count(c, "EMPTY") = empties
            /\ Count(c, "X") = Count(c, "O")
            /\ \A k \in 1..Len(WIN_INDICES) : ~IsWinningLine(c, WIN_INDICES[k])}}

TttRoots3 == TttRootsWith(3)

Levels == (1..MaxLevel) \cup {U8_MAX}

CacheKinds == {"NullCache", "HashMapCache"}

StrategyNew(game, kind) == [game |-> game, cache_kind |-> kind, cache |-> EmptyMap]

(***************************************************************************)
(* The search as a state machine: alpha_beta = score_possible_moves, one   *)
(* root move per step, then collect, then the max set.                     *)
(***************************************************************************)
SearchInit(strategies, roots) ==
    /\ strategy \in strategies
    /\ state \in roots
    /\ max_level \in Levels
    /\ pc = "scoring"
    /\ scored = <<>>
    /\ best = <<>>
    /\ calls = <<>>
    /\ cache_at = <<>>
    /\ set_log = <<>>
    /\ axes = {}
    /\ index = 0
    /\ canonical = -1
    /\ expanded = None
    /\ score_board = None
    /\ board_status = None
    /\ lazy_table = LazyNew
    /\ threads = <<>>

\* the take-away games run with either cache; ttt::Strategy has Cache = NullCache
TakeStrategies == {StrategyNew(g, k) : g \in TakeGames, k \in CacheKinds}

Init == SearchInit(TakeStrategies, {TakeRoot})

InitTtt == SearchInit({StrategyNew(TttGame, "NullCache")}, TttRoots3)

RootMoves == possible_moves(strategy.game, state)

\* one turn of the map closure of score_possible_moves
ScoreMove ==
    /\ pc = "scoring"
    /\ Len(scored) < Len(RootMoves)
    /\ LET m == RootMoves[Len(scored) + 1]
           r == score_root_move(strategy, state, m, max_level)
       IN /\ scored' = Append(scored, ScoredMove(r.score, m))
          /\ strategy' = r.strategy
          /\ calls' = r.calls
          /\ cache_at' = Append(cache_at, strategy.cache)
    /\ UNCHANGED <<state, max_level, pc, best, set_log, axes, index, canonical, expanded,
                   score_board,
                   board_status, lazy_table, threads>>

\* .collect(): score_possible_moves returns
Collect ==
    /\ pc = "scoring"
    /\ Len(scored) = Len(RootMoves)
    /\ pc' = "scored"
    /\ UNCHANGED <<strategy, state, max_level, scored, best, calls, cache_at,
                   set_log, axes, index, canonical, expanded,
                   score_board,
                   board_status, lazy_table, threads>>

\* alpha_beta: the max set of what score_possible_moves returned
AlphaBeta ==
    /\ pc = "scored"
    /\ best' = alpha_beta_result(scored)
    /\ pc' = "done"
    /\ UNCHANGED <<strategy, state, max_level, scored, calls, cache_at,
                   set_log, axes, index, canonical, expanded,
                   score_board,
                   board_status, lazy_table, threads>>

Next == ScoreMove \/ Collect \/ AlphaBeta

\* a wrong expansion: the center is added to the positions of every move
expanded_indices_with_center(move) == expand(move.symmetry, move.index) \o <<4>>

\* SymmetricMove::expanded_indices
expanded_indices(move) == expand(move.symmetry, move.index)

\* the body of the inner loop of to_score_board for one index
write_score(scores, i, s) ==
    LET kept == IF scores[i] # 0
                THEN [scores EXCEPT ![i] = Maximum(scores[i], s)]
                ELSE scores
    IN [kept EXCEPT ![i] = s]

\* the inner loop of to_score_board: the indices of one move from position k
RECURSIVE write_indices(_, _, _, _)
write_indices(scores, indices, k, s) ==
    IF k > Len(indices) THEN scores
    ELSE write_indices(write_score(scores, indices[k], s), indices, k + 1, s)

\* the outer loop of to_score_board: the moves from position k
RECURSIVE write_moves(_, _, _)
write_moves(scores, scored_moves, k) ==
    IF k > Len(scored_moves) THEN scores
    ELSE write_moves(write_indices(scores, expanded_indices(scored_moves[k].min_max_move),
                                   1, scored_moves[k].score),
                     scored_moves, k + 1)

\* to_score_board
to_score_board(scored_moves) == write_moves([i \in BoardIndices |-> 0], scored_moves, 1)

\* to_score_board(&score_possible_moves(..)) on a 3x3 board
ToScoreBoard ==
    /\ pc = "scored"
    /\ strategy.game.kind = "ttt"
    /\ score_board' = Some(to_score_board(scored))
    /\ pc' = "board"
    /\ UNCHANGED <<strategy, state, max_level, scored, best, calls, cache_at,
                   set_log, axes, index, canonical, expanded,
                   board_status, lazy_table, threads>>

NextTtt == Next \/ ToScoreBoard

\* ScoredMove::expand
ScoredMove_expand(m) ==
    [k \in 1..Len(expanded_indices(m.min_max_move)) |->
        ScoredMove(m.score, expanded_indices(m.min_max_move)[k])]

\* Board3x3::empty
GameBoardEmpty == GameBoardNew([i \in BoardIndices |-> "EMPTY"], "Max")

MaxEmptyLevel == 16

EmptyLevels == (1..MaxEmptyLevel) \cup {U8_MAX}

\* score_possible_moves(&mut Strategy::default(), &GameBoard::empty(), max_level)
InitEmpty ==
    /\ strategy = StrategyNew(TttGame, "NullCache")
    /\ state = GameBoardEmpty
    /\ max_level \in EmptyLevels
    /\ pc = "scoring"
    /\ scored = <<>>
    /\ best = <<>>
    /\ calls = <<>>
    /\ cache_at = <<>>
    /\ set_log = <<>>
    /\ axes = {}
    /\ index = 0
    /\ canonical = -1
    /\ expanded = None
    /\ score_board = None
    /\ board_status = None
    /\ lazy_table = LazyNew
    /\ threads = <<>>

SpecEmpty == InitEmpty /\ [][NextTtt]_vars

MaxDepthLevel == 2

\* any max_level from 0 on
DepthLevels == 0..MaxDepthLevel

InitDepth ==
    /\ strategy = StrategyNew(TttGame, "NullCache")
    /\ state \in TttRoots3
    /\ max_level \in DepthLevels
    /\ pc = "scoring"
    /\ scored = <<>>
    /\ best = <<>>
    /\ calls = <<>>
    /\ cache_at = <<>>
    /\ set_log = <<>>
    /\ axes = {}
    /\ index = 0
    /\ canonical = -1
    /\ expanded = None
    /\ score_board = None
    /\ board_status = None
    /\ lazy_table = LazyNew
    /\ threads = <<>>

\* one turn of the map closure of score_possible_moves for any max_level of
\* the u8 range: max_level - 1 at max_level 0 panics in a build with overflow
\* checks and wraps to 255 in a build without
ScoreMoveAnyLevel ==
    /\ pc = "scoring"
    /\ Len(scored) < Len(RootMoves)
    /\ \/ /\ u8_pred_overflows(max_level)
          /\ pc' = "panic"
          /\ UNCHANGED <<strategy, scored, calls, cache_at>>
       \/ /\ LET m == RootMoves[Len(scored) + 1]
                 r == score_root_move(strategy, state, m, max_level)
             IN /\ scored' = Append(scored, ScoredMove(r.score, m))
                /\ strategy' = r.strategy
                /\ calls' = r.calls
                /\ cache_at' = Append(cache_at, strategy.cache)
          /\ pc' = pc
    /\ UNCHANGED <<state, max_level, best, set_log, axes, index, canonical, expanded,
                   score_board, board_status, lazy_table, threads>>

NextDepth == ScoreMoveAnyLevel \/ Collect \/ AlphaBeta

SpecDepth == InitDepth /\ [][NextDepth]_vars

\* either search from the same root: score_possible_moves or all_moves_scored
InitInPlace ==
    /\ strategy \in TakeStrategies
    /\ state = TakeRoot
    /\ max_level \in Levels
    /\ pc \in {"scoring", "scoring_in_place"}
    /\ scored = <<>>
    /\ best = <<>>
    /\ calls = <<>>
    /\ cache_at = <<>>
    /\ set_log = <<>>
    /\ axes = {}
    /\ index = 0
    /\ canonical = -1
    /\ expanded = None
    /\ score_board = None
    /\ board_status = None
    /\ lazy_table = LazyNew
    /\ threads = <<>>

\* one turn of the map closure of all_moves_scored: the move is made on
\* state, evaluated and undone; calls holds the nodes of the evaluation
ScoreMoveInPlace ==
    /\ pc = "scoring_in_place"
    /\ Len(scored) < Len(RootMoves)
    /\ LET m == RootMoves[Len(scored) + 1]
           r == in_place_root_move(strategy, state, m, max_level)
       IN /\ scored' = Append(scored, ScoredMove(r.score, m))
          /\ strategy' = r.strategy
          /\ state' = r.state
          /\ calls' = r.nodes
          /\ cache_at' = Append(cache_at, strategy.cache)
    /\ UNCHANGED <<max_level, pc, best, set_log, axes, index, canonical, expanded,
                   score_board, board_status, lazy_table, threads>>

\* .collect(): all_moves_scored returns
CollectInPlace ==
    /\ pc = "scoring_in_place"
    /\ Len(scored) = Len(RootMoves)
    /\ pc' = "scored_in_place"
    /\ UNCHANGED <<strategy, state, max_level, scored, best, calls, cache_at,
                   set_log, axes, index, canonical, expanded, score_board, board_status, lazy_table, threads>>

NextInPlace == ScoreMove \/ Collect \/ ScoreMoveInPlace \/ CollectInPlace

SpecInPlace == InitInPlace /\ [][NextInPlace]_vars

Spec == Init /\ [][Next]_vars

SpecTtt == InitTtt /\ [][NextTtt]_vars

(***************************************************************************)
(* The cache alone: any sequence of up to MaxSets set operations           *)
(***************************************************************************)
CacheKeys == {[n |-> 1, last_player |-> "Max"], [n |-> 2, last_player |-> "Min"]}

CacheEntries == {CacheEntry(l, f, v) : l \in 1..2, f \in CacheFlag, v \in {-1, 1}}

Unused == StrategyNew([kind |-> "none"], "NullCache")

InitCache ==
    /\ strategy = StrategyNew([kind |-> "none"], "HashMapCache")
    /\ state = TakeRoot
    /\ max_level = 1
    /\ pc = "cache"
    /\ scored = <<>>
    /\ best = <<>>
    /\ calls = <<>>
    /\ cache_at = <<>>
    /\ set_log = <<>>
    /\ axes = {}
    /\ index = 0
    /\ canonical = -1
    /\ expanded = None
    /\ score_board = None
    /\ board_status = None
    /\ lazy_table = LazyNew
    /\ threads = <<>>

\* strategy.cache().set(key, entry)
CacheSet ==
    /\ pc = "cache"
    /\ Len(set_log) < MaxSets
    /\ \E key \in CacheKeys, entry \in CacheEntries :
          /\ strategy' = cache_set(strategy, key, entry)
          /\ set_log' = Append(set_log, [key |-> key, entry |-> entry])
    /\ UNCHANGED <<state, max_level, pc, scored, best, calls, cache_at, axes, index,
                   canonical, expanded,
                   score_board,
                   board_status, lazy_table, threads>>

SpecCache == InitCache /\ [][CacheSet]_vars

(***************************************************************************)
(* The symmetry engine alone: canonicalize, for any descriptor and index   *)
(***************************************************************************)
InitSym ==
    /\ strategy = Unused
    /\ state = TakeRoot
    /\ max_level = 1
    /\ pc = "sym"
    /\ scored = <<>>
    /\ best = <<>>
    /\ calls = <<>>
    /\ cache_at = <<>>
    /\ set_log = <<>>
    /\ axes \in SUBSET AllAxes
    /\ index \in BoardIndices
    /\ canonical = -1
    /\ expanded = None
    /\ score_board = None
    /\ board_status = None
    /\ lazy_table = LazyNew
    /\ threads = <<>>

\* GridSymmetry3x3::new(axes).canonicalize(&index)
Canonicalize ==
    /\ pc = "sym"
    /\ canonical = -1
    /\ canonical' = canonicalize(GridSymmetryNew(axes), index)
    /\ UNCHANGED <<strategy, state, max_level, pc, scored, best, calls, cache_at,
                   set_log, axes, index, expanded,
                   score_board,
                   board_status, lazy_table, threads>>

\* GridSymmetry3x3::new(axes).expand(&index)
Expand ==
    /\ pc = "sym"
    /\ expanded = None
    /\ expanded' = Some(expand(GridSymmetryNew(axes), index))
    /\ UNCHANGED <<strategy, state, max_level, pc, scored, best, calls, cache_at,
                   set_log, axes, index, canonical, score_board,
                   board_status, lazy_table, threads>>

NextSym == Canonicalize \/ Expand

SpecSym == InitSym /\ [][NextSym]_vars

(***************************************************************************)
(* Symmetry detection: Board3x3::symmetry of any cell array                *)
(***************************************************************************)
InitDetect ==
    /\ strategy = Unused
    /\ state \in {GameBoardNew(cells, "Max") : cells \in [BoardIndices -> CellState]}
    /\ max_level = 1
    /\ pc = "detect"
    /\ scored = <<>>
    /\ best = <<>>
    /\ calls = <<>>
    /\ cache_at = <<>>
    /\ set_log = <<>>
    /\ axes = {}
    /\ index = 0
    /\ canonical = -1
    /\ expanded = None
    /\ score_board = None
    /\ board_status = None
    /\ lazy_table = LazyNew
    /\ threads = <<>>

\* state.symmetry(): GridSymmetry3x3::from(&self.cells)
DetectSymmetry ==
    /\ pc = "detect"
    /\ axes' = symmetry_from(state.cells).axes
    /\ pc' = "detected"
    /\ UNCHANGED <<strategy, state, max_level, scored, best, calls, cache_at,
                   set_log, index, canonical, expanded, score_board,
                   board_status, lazy_table, threads>>

SpecDetect == InitDetect /\ [][DetectSymmetry]_vars

(***************************************************************************)
(* The symmetry engine in the 9x9 context                                  *)
(***************************************************************************)
InitSym9x9 ==
    /\ strategy = Unused
    /\ state = TakeRoot
    /\ max_level = 1
    /\ pc = "sym9x9"
    /\ scored = <<>>
    /\ best = <<>>
    /\ calls = <<>>
    /\ cache_at = <<>>
    /\ set_log = <<>>
    /\ axes \in SUBSET AllAxes
    /\ index \in Positions9x9
    /\ canonical = -1
    /\ expanded = None
    /\ score_board = None
    /\ board_status = None
    /\ lazy_table = LazyNew
    /\ threads = <<>>

\* GridSymmetry9x9::new(axes).canonicalize(&index)
Canonicalize9x9 ==
    /\ pc = "sym9x9"
    /\ canonical = -1
    /\ LET symmetry == GridSymmetry9x9New(axes)
       IN IF canonicalize_panics(symmetry, index)
          THEN pc' = "panic" /\ canonical' = canonical
          ELSE pc' = "returned" /\ canonical' = canonicalize(symmetry, index)
    /\ UNCHANGED <<strategy, state, max_level, scored, best, calls, cache_at,
                   set_log, axes, index, expanded, score_board,
                   board_status, lazy_table, threads>>

SpecSym9x9 == InitSym9x9 /\ [][Canonicalize9x9]_vars

(***************************************************************************)
(* The composite status of any nine sub-board statuses                     *)
(***************************************************************************)
InitStatus ==
    /\ strategy = Unused
    /\ state \in {[sub_boards |-> sb, last_player |-> "Max"] :
                    sb \in [BoardIndices -> {SubBoard(s) : s \in BoardStatus}]}
    /\ max_level = 1
    /\ pc = "status"
    /\ scored = <<>>
    /\ best = <<>>
    /\ calls = <<>>
    /\ cache_at = <<>>
    /\ set_log = <<>>
    /\ axes = {}
    /\ index = 0
    /\ canonical = -1
    /\ expanded = None
    /\ score_board = None
    /\ board_status = None
    /\ lazy_table = LazyNew
    /\ threads = <<>>

\* calculate_status(&state.sub_boards, state.last_player)
CalculateStatus ==
    /\ pc = "status"
    /\ board_status' = Some(calculate_status(state.sub_boards, state.last_player))
    /\ pc' = "status_done"
    /\ UNCHANGED <<strategy, state, max_level, scored, best, calls, cache_at,
                   set_log, axes, index, canonical, expanded, score_board, lazy_table, threads>>

SpecStatus == InitStatus /\ [][CalculateStatus]_vars

(***************************************************************************)
(* The status of any 3x3 cell array                                        *)
(***************************************************************************)
InitBoard ==
    /\ strategy = Unused
    /\ state \in {GameBoardNew(cells, p) : cells \in [BoardIndices -> CellState], p \in Player}
    /\ max_level = 1
    /\ pc = "board3x3"
    /\ scored = <<>>
    /\ best = <<>>
    /\ calls = <<>>
    /\ cache_at = <<>>
    /\ set_log = <<>>
    /\ axes = {}
    /\ index = 0
    /\ canonical = -1
    /\ expanded = None
    /\ score_board = None
    /\ board_status = None
    /\ lazy_table = LazyNew
    /\ threads = <<>>

\* state.status()
Status ==
    /\ pc = "board3x3"
    /\ board_status' = Some(ttt_status(state))
    /\ pc' = "status3x3"
    /\ UNCHANGED <<strategy, state, max_level, scored, best, calls, cache_at,
                   set_log, axes, index, canonical, expanded, score_board, lazy_table, threads>>

SpecBoard == InitBoard /\ [][Status]_vars

(***************************************************************************)
(* The score board of the moves of any 3x3 cell array                      *)
(***************************************************************************)
\* the moves of possible_moves(state), the k-th with score k
NumberedMoves(board) ==
    [k \in 1..Len(ttt_possible_moves(board)) |-> ScoredMove(k, ttt_possible_moves(board)[k])]

\* to_score_board(&scored_moves), scored_moves one ScoredMove per move of
\* possible_moves(state)
WriteScoreBoard ==
    /\ pc = "board3x3"
    /\ scored' = NumberedMoves(state)
    /\ score_board' = Some(to_score_board(NumberedMoves(state)))
    /\ pc' = "written"
    /\ UNCHANGED <<strategy, state, max_level, best, calls, cache_at,
                   set_log, axes, index, canonical, expanded, board_status, lazy_table, threads>>

SpecWrites == InitBoard /\ [][WriteScoreBoard]_vars

(***************************************************************************)
(* One move from any board: a move of possible_moves handed to do_move      *)
(***************************************************************************)
MaxMarked == 3

StoplightGame == [kind |-> "stoplight"]

\* the stoplight boards with at most MaxMarked cells that are not EMPTY
StoplightBoards ==
    {GameBoardNew(cells, p) :
        cells \in {c \in [BoardIndices -> StoplightCellState] :
                      Cardinality({i \in BoardIndices : c[i] # "EMPTY"}) <= MaxMarked},
        p \in Player}

TttBoards == {GameBoardNew(cells, p) : cells \in [BoardIndices -> CellState], p \in Player}

InitMove ==
    /\ \/ strategy = StrategyNew(TttGame, "NullCache") /\ state \in TttBoards
       \/ strategy = StrategyNew(StoplightGame, "NullCache") /\ state \in StoplightBoards
    /\ max_level = 1
    /\ pc = "to_move"
    /\ scored = <<>>
    /\ best = <<>>
    /\ calls = <<>>
    /\ cache_at = <<>>
    /\ set_log = <<>>
    /\ axes = {}
    /\ index = 0
    /\ canonical = -1
    /\ expanded = None
    /\ score_board = None
    /\ board_status = None
    /\ lazy_table = LazyNew
    /\ threads = <<>>

\* for m in possible_moves(state) { do_move(state, &m, player) } of the
\* three-in-a-row adapter, for the player whose turn it is; index is the cell
\* of the move
TttMove ==
    /\ pc = "to_move"
    /\ strategy.game.kind = "ttt"
    /\ \E k \in 1..Len(ttt_possible_moves(state)) :
          LET m == ttt_possible_moves(state)[k]
          IN /\ index' = m.index
             /\ canonical' = canonicalize(m.symmetry, m.index)
             /\ state' = ttt_do_move(state, m, Not(state.last_player))
    /\ pc' = "moved"
    /\ UNCHANGED <<strategy, max_level, scored, best, calls, cache_at, set_log, axes,
                   expanded, score_board, board_status, lazy_table, threads>>

\* the same of the stoplight adapter
StoplightMove ==
    /\ pc = "to_move"
    /\ strategy.game.kind = "stoplight"
    /\ \E k \in 1..Len(stoplight_possible_moves(state)) :
          LET m == stoplight_possible_moves(state)[k]
          IN /\ index' = m.index
             /\ canonical' = canonicalize(m.symmetry, m.index)
             /\ state' = stoplight_do_move(state, m, Not(state.last_player))
    /\ pc' = "moved"
    /\ UNCHANGED <<strategy, max_level, scored, best, calls, cache_at, set_log, axes,
                   expanded, score_board, board_status, lazy_table, threads>>

NextMove == TttMove \/ StoplightMove

SpecMove == InitMove /\ [][NextMove]_vars

(***************************************************************************)
(* First use of AXIS_TO_CANONICAL_INDICES_3X3 by several threads.  What    *)
(* lazy_static! does on a dereference is Once::call_once: the first thread  *)
(* runs the initializer and writes its result to the cell, a thread that   *)
(* comes while it runs waits, a thread that comes later reads the cell.    *)
(***************************************************************************)
NumThreads == 2

Threads == 1..NumThreads

\* the axis subsets the threads ask for
AskedSets == {{}, {"Vertical"}, {"DiagonalTopBottom", "Horizontal"}, AllAxes}

ThreadNew(axis_set) == [pc |-> "idle", axes |-> axis_set, seen |-> None]

InitLazy ==
    /\ strategy = Unused
    /\ state = TakeRoot
    /\ max_level = 1
    /\ pc = "threads"
    /\ scored = <<>>
    /\ best = <<>>
    /\ calls = <<>>
    /\ cache_at = <<>>
    /\ set_log = <<>>
    /\ axes = {}
    /\ index = 0
    /\ canonical = -1
    /\ expanded = None
    /\ score_board = None
    /\ board_status = None
    /\ lazy_table = LazyNew
    /\ threads \in [Threads -> {ThreadNew(a) : a \in AskedSets}]

Unthreaded == <<strategy, state, max_level, pc, scored, best, calls, cache_at,
                set_log, axes, index, canonical, expanded, score_board, board_status>>

\* GridSymmetry::new -> canonicalization_mapping: the dereference of the
\* static enters call_once
CallOnce(t) ==
    /\ threads[t].pc = "idle"
    /\ IF lazy_table.once = "INCOMPLETE"
       THEN /\ lazy_table' = [lazy_table EXCEPT !.once = "RUNNING"]
            /\ threads' = [threads EXCEPT ![t].pc = "init"]
       ELSE /\ lazy_table' = lazy_table
            /\ threads' = [threads EXCEPT ![t].pc =
                              IF once_blocks(lazy_table.once) THEN "waiting" ELSE "deref"]
    /\ UNCHANGED Unthreaded

\* the initializer, generate_axis_to_canonical_indices: one (axis_set,
\* canonical_indices) pair of the powerset is collected into the HashMap
Generate(t) ==
    /\ threads[t].pc = "init"
    /\ Cardinality(DOMAIN lazy_table.building) < Len(Powerset)
    /\ LET axis_set == Powerset[Cardinality(DOMAIN lazy_table.building) + 1]
       IN lazy_table' = [lazy_table EXCEPT !.building =
              [a \in DOMAIN lazy_table.building \cup {axis_set} |->
                  IF a = axis_set THEN canonical_indices(axis_set)
                  ELSE lazy_table.building[a]]]
    /\ UNCHANGED threads
    /\ UNCHANGED Unthreaded

\* the initializer returns: its HashMap is written to the cell and the Once
\* is complete
Publish(t) ==
    /\ threads[t].pc = "init"
    /\ Cardinality(DOMAIN lazy_table.building) = Len(Powerset)
    /\ lazy_table' = [lazy_table EXCEPT !.once = "COMPLETE",
                                        !.value = Some(lazy_table.building)]
    /\ threads' = [threads EXCEPT ![t].pc = "deref"]
    /\ UNCHANGED Unthreaded

\* call_once returns to a thread that waited
Wake(t) ==
    /\ threads[t].pc = "waiting"
    /\ lazy_table.once = "COMPLETE"
    /\ threads' = [threads EXCEPT ![t].pc = "deref"]
    /\ UNCHANGED lazy_table
    /\ UNCHANGED Unthreaded

\* AXIS_TO_CANONICAL_INDICES_3X3.get(axes).expect(..): the cell is read and
\* the subset looked up; a cell not yet written or a subset not in the map
\* fails
Lookup(t) ==
    /\ threads[t].pc = "deref"
    /\ threads' =
          IF lazy_table.value = None
          THEN [threads EXCEPT ![t].pc = "failed"]
          ELSE IF threads[t].axes \notin DOMAIN lazy_table.value[1]
          THEN [threads EXCEPT ![t].pc = "failed"]
          ELSE [threads EXCEPT ![t].pc = "got",
                               ![t].seen = Some(lazy_table.value[1][threads[t].axes])]
    /\ UNCHANGED lazy_table
    /\ UNCHANGED Unthreaded

\* a later GridSymmetry::new of the same thread, for any subset
NewAgain(t) ==
    /\ threads[t].pc = "got"
    /\ \E a \in AskedSets : threads' = [threads EXCEPT ![t] = ThreadNew(a)]
    /\ UNCHANGED lazy_table
    /\ UNCHANGED Unthreaded

NextLazy ==
    \E t \in Threads :
        CallOnce(t) \/ Generate(t) \/ Publish(t) \/ Wake(t) \/ Lookup(t) \/ NewAgain(t)

SpecLazy == InitLazy /\ [][NextLazy]_vars

(***************************************************************************)
(* Claims                                                                  *)
(***************************************************************************)
SetMax(S) == CHOOSE x \in S : \A y \in S : x >= y

Searching == pc \in {"scoring", "scored", "done"}

\* the unpruned negamax value of s for the player to move, depth plies deep,
\* a leaf scored score * (depth + 1)
RECURSIVE Negamax(_, _, _, _)
Negamax(game, s, player, depth) ==
    LET moves == possible_moves(game, s)
    IN IF depth = 0 \/ moves = <<>>
       THEN score(game, s, player) * (depth + 1)
       ELSE SetMax({-Negamax(game, do_move(game, s, moves[k], player), Not(player),
                             depth - 1) : k \in 1..Len(moves)})

\* C1: with the no-op cache every root move scored so far has the score an
\* unpruned negamax search of depth max_level - 1 gives the state after it,
\* negated
C1_AlphaBetaEqualsNegamax ==
    (Searching /\ strategy.cache_kind = "NullCache") =>
        \A k \in 1..Len(scored) :
            scored[k].score =
                -Negamax(strategy.game,
                         do_move(strategy.game, state, scored[k].min_max_move, "Max"),
                         "Min", max_level - 1)

\* a call of the last root move's evaluation left its loop by the cutoff,
\* with moves untried
Pruned(c) ==
    /\ c.exit = "expanded"
    /\ c.visited < Len(possible_moves(strategy.game, c.state))

C1_Witness ==
    /\ pc = "scored"
    /\ strategy.cache_kind = "NullCache"
    /\ max_level >= 3
    /\ Len(scored) >= 2
    /\ \E k \in 1..Len(calls) : Pruned(calls[k])

\* the score of move m in a Vec<ScoredMove>
ScoreOf(result, m) ==
    (CHOOSE x \in SeqToSet(result) : x.min_max_move = m).score

\* C2: a search with the hash-map cache (empty at the start) gives every root
\* move the score the search with the no-op cache gives it
C2_CacheTransparent ==
    (pc = "scored" /\ strategy.cache_kind = "HashMapCache") =>
        LET plain == score_possible_moves(StrategyNew(strategy.game, "NullCache"),
                                          state, max_level)
        IN \A k \in 1..Len(scored) :
               scored[k].score = ScoreOf(plain, scored[k].min_max_move)

\* C3: score_possible_moves yields one entry per move of possible_moves(root),
\* in that order, and the score of a move is the negation of the evaluation
\* of the state after it, for Min, max_level - 1 deep, in the window
\* (-i32::MAX, i32::MAX) (with the cache as it was when the move was tried)
C3_OneEntryPerMoveInOrder ==
    Searching =>
        /\ Len(scored) <= Len(RootMoves)
        /\ (pc # "scoring") => Len(scored) = Len(RootMoves)
        /\ \A k \in 1..Len(scored) :
              /\ scored[k].min_max_move = RootMoves[k]
              /\ scored[k].score =
                    -alpha_beta_eval_single_move(
                        [strategy EXCEPT !.cache = cache_at[k]],
                        do_move(strategy.game, state, RootMoves[k], "Max"),
                        "Min", max_level - 1, -I32_MAX, I32_MAX).value

C3_Witness ==
    /\ pc = "scored"
    /\ Len(scored) = 3
    /\ strategy.cache_kind = "HashMapCache"
    /\ cache_at[3] # EmptyMap
    /\ \E j, k \in 1..3 : scored[j].score # scored[k].score

\* C4: alpha_beta returns, in the order of score_possible_moves, exactly the
\* scored root moves whose score is the maximum over all root moves
C4_AlphaBetaIsMaxSet ==
    (pc = "done") =>
        best = SelectSeq(scored, LAMBDA x :
                   \A k \in 1..Len(scored) : x.score >= scored[k].score)

C4_Witness ==
    /\ pc = "done"
    /\ Len(best) = 2
    /\ Len(scored) = 3
    /\ best[1] # scored[1]

\* the game with its moves enumerated in the order takes
Reordered(game, takes) == [game EXCEPT !.takes = takes]

\* C5: whatever the order in which possible_moves enumerates the same moves,
\* every root move gets the same score, with the no-op cache and with the
\* hash-map cache
C5_OrderIndependent ==
    (pc = "scored") =>
        \A t \in {u \in TakeOrders : SeqToSet(u) = SeqToSet(strategy.game.takes)} :
            LET other == score_possible_moves(
                             StrategyNew(Reordered(strategy.game, t), strategy.cache_kind),
                             state, max_level)
            IN \A k \in 1..Len(scored) :
                   scored[k].score = ScoreOf(other, scored[k].min_max_move)

\* C6: in every evaluation call, an entry found with a level smaller than the
\* remaining depth leaves alpha and beta as they were and the call goes on to
\* the moves; a call returns from the cache or goes on with a changed window
\* only on an entry whose level is at least the remaining depth
C6_DepthAwareCacheUse ==
    Searching =>
        \A k \in 1..Len(calls) :
            LET c == calls[k]
            IN /\ (c.found # None /\ c.found[1].level < c.remaining_levels) =>
                      /\ c.alpha_used = c.alpha
                      /\ c.beta_used = c.beta
                      /\ c.exit \in {"terminal", "expanded"}
               /\ (c.exit = "cache" \/ c.alpha_used # c.alpha \/ c.beta_used # c.beta) =>
                      /\ c.found # None
                      /\ c.found[1].level >= c.remaining_levels

C6_Witness ==
    /\ Searching
    /\ \E j \in 1..Len(calls) :
          /\ calls[j].found # None
          /\ calls[j].found[1].level < calls[j].remaining_levels
          /\ calls[j].found[1].flag = "Exact"
          /\ calls[j].exit = "expanded"

\* the entry of the most recent set of the log whose key is key
LastSet(log, key) ==
    LET at == {k \in 1..Len(log) : log[k].key = key}
    IN IF at = {} THEN None ELSE Some(log[SetMax(at)].entry)

\* C7: after any sequence of sets, get(key) is the entry of the most recent
\* set with that key, also when it has a smaller level than the one before,
\* and nothing iff the key was never set; so a set changes no other key's
\* answer and no stored key is ever lost
C7_GetReturnsLastSet ==
    (pc = "cache") =>
        \A key \in CacheKeys : cache_get(strategy, key) = LastSet(set_log, key)

C7_Witness ==
    /\ pc = "cache"
    /\ Len(set_log) = 3
    /\ set_log[1].key = set_log[3].key
    /\ set_log[2].key # set_log[1].key
    /\ set_log[3].entry.level < set_log[1].entry.level
    /\ cache_get(strategy, set_log[1].key) = Some(set_log[3].entry)
    /\ cache_get(strategy, set_log[2].key) = Some(set_log[2].entry)

\* S is closed under the pairings of the axes of axis_set
ClosedUnder(axis_set, S) ==
    \A a \in axis_set : \A k \in 1..Len(symmetric_indices(a)) :
        symmetric_indices(a)[k][1] \in S <=> symmetric_indices(a)[k][2] \in S

\* the equivalence class of i: the least set that holds i and is closed
EquivalenceClass(axis_set, i) ==
    {j \in BoardIndices :
        \A S \in SUBSET BoardIndices : (i \in S /\ ClosedUnder(axis_set, S)) => j \in S}

\* C10: for each of the 16 axis subsets and each index 0..8, canonicalize
\* returns the smallest index of the class generated by the pairings of all
\* active axes together; {DiagonalTopBottom, Horizontal} maps 8 to 0 and 5 to
\* 1, {Vertical} maps 8 to 6
C10_CanonicalIsClassMinimum ==
    (pc = "sym" /\ canonical # -1) =>
        /\ canonical = SetMin(EquivalenceClass(axes, index))
        /\ (axes = {"DiagonalTopBottom", "Horizontal"} /\ index = 8) => canonical = 0
        /\ (axes = {"DiagonalTopBottom", "Horizontal"} /\ index = 5) => canonical = 1
        /\ (axes = {"Vertical"} /\ index = 8) => canonical = 6

\* an index that no single axis of the descriptor pairs with its class minimum
C10_Witness ==
    /\ pc = "sym"
    /\ axes = {"DiagonalTopBottom", "Horizontal"}
    /\ index = 8
    /\ canonical = 0
    /\ \A a \in axes : 0 \notin SeqToSet(expand_index(a, 8))

\* three-in-a-row by its rules (the game ends when a line is complete): the
\* value of board for the player to move, 10 less the number of plies to the
\* forced end: positive for a forced win, negative for a forced loss
RECURSIVE RuleValue(_, _)
RuleValue(board, player) ==
    LET empty == {i \in BoardIndices : board.cells[i] = "EMPTY"}
        after(i) == [cells |-> [board.cells EXCEPT ![i] = CellStateFrom(player)],
                     last_player |-> player]
        top == SetMax({-RuleValue(after(i), Not(player)) : i \in empty})
    IN IF ttt_status(board) \in {"MaxWon", "MinWon"} THEN -10
       ELSE IF empty = {} THEN 0
       ELSE IF top > 0 THEN top - 1
       ELSE IF top < 0 THEN top + 1
       ELSE 0

\* the value by the rules of the root move m for Max
RootRuleValue(m) == -RuleValue(ttt_do_move(state, m, "Max"), "Min")

\* C8: in a search deep enough to play the board out, of two root moves that
\* both force a win for Max the one that wins in fewer plies has the strictly
\* greater score, and of two root moves that both lose by force the one that
\* loses later has the strictly greater score
C8_FastestWinSlowestLoss ==
    (pc = "scored" /\ strategy.game.kind = "ttt" /\ max_level >= 3) =>
        \A j, k \in 1..Len(scored) :
            LET vj == RootRuleValue(scored[j].min_max_move)
                vk == RootRuleValue(scored[k].min_max_move)
            IN (vj > vk /\ (vk > 0 \/ vj < 0)) => scored[j].score > scored[k].score

\* the windows and depths the sign law is tried with
Windows == {<<-I32_MAX, I32_MAX>>, <<-1, 1>>, <<0, 1>>, <<-1, 0>>}

SignLawDepths == 0..2

\* eval(s, Max, d, a, b) = -eval(s, Min, d, -b, -a), from the strategy as it is
SignLawAt(s, d, w) ==
    alpha_beta_eval_single_move(strategy, s, "Max", d, w[1], w[2]).value
        = -alpha_beta_eval_single_move(strategy, s, "Min", d, -w[2], -w[1]).value

\* the states the search evaluated: each was reached by one ply
Evaluated == {calls[k].state : k \in 1..Len(calls)}

\* C9 as stated: for every state reached by one ply (here: the states the
\* evaluation of a root move went through), every depth and every window,
\* eval(state, Max, d, a, b) = -eval(state, Min, d, -b, -a)
C9_SignLaw ==
    (pc = "scoring") =>
        \A s \in Evaluated : \A d \in SignLawDepths : \A w \in Windows :
            SignLawAt(s, d, w)

\* s is evaluated as a leaf at depth d
IsLeaf(s, d) == d = 0 \/ possible_moves(strategy.game, s) = <<>>

\* C9 amended: for the three-in-a-row adapter the sign law holds wherever the
\* state is evaluated as a leaf (depth 0, or no move left), for every window
C9_SignLawAtLeaves ==
    (pc = "scoring" /\ strategy.game.kind = "ttt") =>
        \A s \in Evaluated : \A d \in SignLawDepths : \A w \in Windows :
            IsLeaf(s, d) => SignLawAt(s, d, w)

\* a full board with a winner, evaluated with depth left: both sides of the
\* law are a scaled, nonzero score
C9_Witness ==
    /\ Searching
    /\ strategy.game.kind = "ttt"
    /\ \E s \in Evaluated :
          /\ possible_moves(strategy.game, s) = <<>>
          /\ alpha_beta_eval_single_move(strategy, s, "Max", 2, -1, 1).value = 3
          /\ alpha_beta_eval_single_move(strategy, s, "Min", 2, -1, 1).value = -3

\* C11: for every descriptor, the one without an active axis included, and
\* every index i, the list returned by expand(descriptor, i) contains i
C11_ExpandContainsIndex ==
    (pc = "sym" /\ expanded # None) => index \in SeqToSet(expanded[1])

\* the score score_possible_moves computed for the move of the class of cell i
ClassScore(i) ==
    ScoreOf(scored, [index |-> canonicalize(symmetry_from(state.cells), i),
                     symmetry |-> symmetry_from(state.cells)])

\* C12: in to_score_board(score_possible_moves(state)) every playable cell
\* carries the score computed for the move of its equivalence class under the
\* detected descriptor, so two playable cells with the same canonical index
\* carry equal scores
C12_ScoreBoardProjection ==
    (pc = "board") =>
        \A i \in BoardIndices :
            state.cells[i] = "EMPTY" => score_board[1][i] = ClassScore(i)

\* C13: for every axis subset and every index i, canonicalizing the canonical
\* index of i again returns it: canonical indices are fixed points
C13_CanonicalizeIdempotent ==
    (pc = "sym" /\ canonical # -1) =>
        canonicalize(GridSymmetryNew(axes), canonical) = canonical

\* an index that is moved by canonicalize through two axes (8 -> 2 -> 0)
C13_Witness ==
    /\ pc = "sym"
    /\ axes = {"Vertical", "Horizontal"}
    /\ index = 8
    /\ canonical = 0
    /\ canonicalize(GridSymmetryNew(axes), 0) = 0

\* the positions paired with a position of S by an active axis
Paired9x9(axis_set, S) ==
    {q \in Positions9x9 : \E a \in axis_set : \E k \in 1..Len(symmetric_indices_9x9(a)) :
        LET pair == symmetric_indices_9x9(a)[k]
        IN (pair[1] \in S /\ pair[2] = q) \/ (pair[2] \in S /\ pair[1] = q)}

\* the equivalence class that holds S: the closure under the 9x9 pairings
RECURSIVE Closure9x9(_, _)
Closure9x9(axis_set, S) ==
    IF Paired9x9(axis_set, S) \subseteq S THEN S
    ELSE Closure9x9(axis_set, S \cup Paired9x9(axis_set, S))

\* C14: in the 9x9 context, for every axis subset and every position 0..80,
\* canonicalize is defined and returns the smallest position of the
\* position's equivalence class under the closure of the active pairings
C14_Canonicalize9x9 ==
    (pc \in {"panic", "returned"}) =>
        /\ pc = "returned"
        /\ canonical = SetMin(Closure9x9(axes, {index}))

\* C15: for every 3x3 cell array the detected descriptor holds axis A iff the
\* two cells of every pair of A are equal; being a function of the cells
\* alone, the result does not depend on the order of the tests
C15_DetectedAxes ==
    (pc = "detected") =>
        \A a \in AllAxes :
            a \in axes <=>
                \A k \in 1..Len(symmetric_indices(a)) :
                    state.cells[symmetric_indices(a)[k][1]]
                        = state.cells[symmetric_indices(a)[k][2]]

\* one axis detected, another one rejected by its second pair only
C15_Witness ==
    /\ pc = "detected"
    /\ axes = {"Vertical"}
    /\ state.cells[0] = state.cells[6]
    /\ state.cells[1] # state.cells[7]

\* scored_moves.iter().flat_map(|m| m.expand()).collect::<HashSet<_>>()
scored_expanded_moves ==
    UNION {SeqToSet(ScoredMove_expand(scored[k])) : k \in 1..Len(scored)}

\* C16: on the empty three-in-a-row board, with max_level 255 (any level of
\* at least 9), the expansions of the scored moves cover all nine cells and
\* every cell has the score 0
C16_EmptyBoardAllZero ==
    (pc = "scored" /\ state = GameBoardEmpty /\ max_level >= 9) =>
        scored_expanded_moves = {ScoredMove(0, i) : i \in BoardIndices}

C16_Witness ==
    /\ pc = "scored"
    /\ state = GameBoardEmpty
    /\ max_level = U8_MAX
    /\ Len(scored) = 3
    /\ Cardinality(scored_expanded_moves) = 9

\* the root move to the center cell
IsCenter(m) == m.index = 4

\* C17 as stated: on the empty board with max_level of at least 9 the score
\* of the center move is strictly greater than that of every other root move
C17_CenterUniqueBest ==
    (pc = "scored" /\ state = GameBoardEmpty /\ max_level >= 9) =>
        \A j, k \in 1..Len(scored) :
            (IsCenter(scored[j].min_max_move) /\ ~IsCenter(scored[k].min_max_move))
                => scored[j].score > scored[k].score

\* C17 amended: the center move is a best opening move, but not the only
\* one: its score is at least that of every other root move and alpha_beta
\* returns it among the best moves
C17_CenterAmongBest ==
    (pc = "done" /\ state = GameBoardEmpty /\ max_level >= 9) =>
        /\ \E j \in 1..Len(best) : IsCenter(best[j].min_max_move)
        /\ \A j, k \in 1..Len(scored) :
              IsCenter(scored[j].min_max_move) => scored[j].score >= scored[k].score

\* alpha_beta returned the center together with the corner and the edge
C17_Witness ==
    /\ pc = "done"
    /\ state = GameBoardEmpty
    /\ max_level = 9
    /\ Len(best) = 3
    /\ IsCenter(best[1].min_max_move)

\* the sub-boards with status s
SubBoardsWith(s) == {i \in BoardIndices : state.sub_boards[i].status = s}

\* some line of three sub-boards is won by the player whose win is status s
HasLine(s) ==
    \E k \in 1..Len(WIN_INDICES) :
        \A j \in 1..3 : WIN_INDICES[k][j] \in SubBoardsWith(s)

\* C19: when every sub-board is decided and no line of three sub-boards is won
\* by one player, the composite status is MaxWon if Max won more sub-boards,
\* MinWon if Min won more, Draw if they won equally many (also when all nine
\* sub-boards are won)
C19_MajorityOfDecided ==
    (pc = "status_done" /\ SubBoardsWith("Ongoing") = {}
                        /\ ~HasLine("MaxWon") /\ ~HasLine("MinWon")) =>
        LET max_wins == Cardinality(SubBoardsWith("MaxWon"))
            min_wins == Cardinality(SubBoardsWith("MinWon"))
        IN board_status[1] = IF max_wins > min_wins THEN "MaxWon"
                             ELSE IF min_wins > max_wins THEN "MinWon"
                             ELSE "Draw"

\* C20: the composite status is Ongoing iff no line of three sub-boards is
\* won by one player and some sub-board is Ongoing; with such a line the
\* result is the win of a player who has one, Ongoing sub-boards or not
C20_OngoingIffNoLineAndOpen ==
    (pc = "status_done") =>
        /\ board_status[1] = "Ongoing" <=>
              (~HasLine("MaxWon") /\ ~HasLine("MinWon") /\ SubBoardsWith("Ongoing") # {})
        /\ (HasLine("MaxWon") /\ ~HasLine("MinWon")) => board_status[1] = "MaxWon"
        /\ (HasLine("MinWon") /\ ~HasLine("MaxWon")) => board_status[1] = "MinWon"
        /\ (HasLine("MaxWon") /\ HasLine("MinWon")) => board_status[1] \in {"MaxWon", "MinWon"}

\* a line of Min among sub-boards that are still Ongoing (the second case of
\* test_status)
C20_Witness ==
    /\ pc = "status_done"
    /\ HasLine("MinWon")
    /\ ~HasLine("MaxWon")
    /\ Cardinality(SubBoardsWith("Ongoing")) = 2
    /\ board_status = Some("MinWon")

\* some line of WIN_INDICES holds three cells c
LineOf(c) ==
    \E k \in 1..Len(WIN_INDICES) : \A j \in 1..3 : state.cells[WIN_INDICES[k][j]] = c

\* C21: for every cell array in which at most one player has a complete line,
\* status is MaxWon if a line holds three X, MinWon if a line holds three O,
\* Ongoing if no line is complete and a cell is EMPTY, Draw if no line is
\* complete and no cell is EMPTY; a line of three EMPTY cells is never a win
C21_Status3x3 ==
    (pc = "status3x3" /\ ~(LineOf("X") /\ LineOf("O"))) =>
        board_status[1] =
            IF LineOf("X") THEN "MaxWon"
            ELSE IF LineOf("O") THEN "MinWon"
            ELSE IF \E i \in BoardIndices : state.cells[i] = "EMPTY" THEN "Ongoing"
            ELSE "Draw"

\* a line of three EMPTY cells comes first in WIN_INDICES, a line of O later
C21_Witness ==
    /\ pc = "status3x3"
    /\ \A i \in {0, 1, 2} : state.cells[i] = "EMPTY"
    /\ \A i \in {6, 7, 8} : state.cells[i] = "O"
    /\ ~LineOf("X")
    /\ board_status = Some("MinWon")

\* entry is sound for state s of game: its value is, is at most, or is at
\* least the unpruned negamax value of s (for the player to move) at depth
\* entry.level, as its flag says
SoundEntry(game, s, entry) ==
    LET N == Negamax(game, s, Not(s.last_player), entry.level)
    IN CASE entry.flag = "Exact"      -> entry.value = N
         [] entry.flag = "LowerBound" -> entry.value <= N
         [] entry.flag = "UpperBound" -> entry.value >= N

\* C23: at every point of a search with the hash-map cache every entry given
\* to the cache (by a call of the last root move's evaluation) and every entry
\* in the cache is sound
C23_CacheSound ==
    (Searching /\ strategy.cache_kind = "HashMapCache") =>
        /\ \A k \in 1..Len(calls) :
              calls[k].stored # None =>
                  SoundEntry(strategy.game, calls[k].state, calls[k].stored[1])
        /\ \A s \in DOMAIN strategy.cache : SoundEntry(strategy.game, s, strategy.cache[s])

\* C24: an evaluation call that expands the children of s at remaining depth
\* r and ends with running maximum m gives the cache exactly the entry
\* {value m, level r, flag}, flag UpperBound if m <= the alpha the call was
\* entered with, otherwise LowerBound if m >= beta (the beta in use after the
\* cache lookup), otherwise Exact; a call that returns at remaining depth 0,
\* at a state without moves or from a cache hit stores nothing
C24_EntryClassification ==
    Searching =>
        \A k \in 1..Len(calls) :
            LET c == calls[k]
            IN IF c.exit = "expanded"
               THEN c.stored = Some(CacheEntry(c.remaining_levels,
                                     IF c.value <= c.alpha THEN "UpperBound"
                                     ELSE IF c.value >= c.beta_used THEN "LowerBound"
                                     ELSE "Exact",
                                     c.value))
               ELSE c.stored = None

\* a call whose alpha was raised by a LowerBound entry found in the cache went
\* on to its moves and stored an entry classified by the alpha it was entered
\* with; other calls of the same evaluation returned at remaining depth 0 and
\* at a state without moves and stored nothing
C24_Witness ==
    /\ Searching
    /\ strategy.cache_kind = "HashMapCache"
    /\ \E k \in 1..Len(calls) :
          /\ calls[k].exit = "expanded"
          /\ calls[k].alpha_used > calls[k].alpha
          /\ calls[k].stored # None
    /\ \E k \in 1..Len(calls) : calls[k].exit = "depth" /\ calls[k].stored = None
    /\ \E k \in 1..Len(calls) : calls[k].exit = "terminal" /\ calls[k].stored = None

\* a line of three is complete on board
Decided(board) == ttt_status(board) \in {"MaxWon", "MinWon"}

\* C25: for the three-in-a-row adapter possible_moves returns no move for a
\* board whose status is MaxWon or MinWon, so every decided board the search
\* evaluates is scored as a leaf and no mark is placed on it
C25_DecidedIsTerminal ==
    (pc = "scoring" /\ strategy.game.kind = "ttt") =>
        \A k \in 1..Len(calls) :
            Decided(calls[k].state) =>
                /\ possible_moves(strategy.game, calls[k].state) = <<>>
                /\ calls[k].exit \in {"depth", "terminal"}

\* the caller of the k-th evaluation call of the log (0: the root closure):
\* the last call before it with one more level remaining
Caller(k) ==
    LET before == {j \in 1..(k - 1) :
                     calls[j].remaining_levels = calls[k].remaining_levels + 1}
    IN IF before = {} THEN 0 ELSE SetMax(before)

\* C28: in every evaluation call the player argument is the opposite of the
\* player who moved last into the evaluated state; the move into the state of
\* a call from the root closure was made by Max, the move into the state of a
\* nested call by the player of its caller, so the movers alternate Max, Min,
\* Max, ... along every path, and a state is only ever scored for the player
\* who did not move last
C28_StrictAlternation ==
    (pc = "scoring") =>
        \A k \in 1..Len(calls) :
            /\ calls[k].player # calls[k].state.last_player
            /\ calls[k].state.last_player =
                  IF Caller(k) = 0 THEN "Max" ELSE calls[Caller(k)].player
            /\ Caller(k) # 0 => calls[k].player # calls[Caller(k)].player

\* a path of three plies: Max, Min, Max
C28_Witness ==
    /\ pc = "scoring"
    /\ \E k \in 1..Len(calls) :
          /\ Caller(k) # 0
          /\ Caller(Caller(k)) # 0
          /\ calls[k].state.last_player = "Max"
          /\ calls[Caller(k)].state.last_player = "Min"
          /\ calls[Caller(Caller(k))].state.last_player = "Max"
          /\ calls[k].player = "Min"

\* the positions to_score_board writes for the k-th scored move
WrittenBy(k) == SeqToSet(expanded_indices(scored[k].min_max_move))

\* C30: for any 3x3 board the expansions of two distinct moves of
\* possible_moves share no position, so to_score_board writes each position
\* for at most one move and the score at a written position is the score of
\* the one move that wrote it
C30_NoWriteCollision ==
    (pc = "written") =>
        /\ \A j, k \in 1..Len(scored) : j # k => WrittenBy(j) \cap WrittenBy(k) = {}
        /\ \A k \in 1..Len(scored) : \A i \in WrittenBy(k) :
              score_board[1][i] = scored[k].score

\* the empty board: center, corner and edge move, the corner move written to
\* the four corners
C30_Witness ==
    /\ pc = "written"
    /\ Len(scored) = 3
    /\ WrittenBy(2) = {0, 2, 6, 8}
    /\ WrittenBy(3) = {1, 3, 5, 7}
    /\ score_board[1][8] = 2
    /\ score_board[1][7] = 3

\* C26: for every max_level from 0 on the search never panics on the
\* subtraction of the remaining depth, and every evaluation call has a remaining depth from 0 to max_level - 1, so that the nesting
\* depth max_level - remaining depth is from 1 to max_level
C26_BoundedRecursion ==
    /\ pc # "panic"
    /\ \A k \in 1..Len(calls) :
          /\ calls[k].remaining_levels >= 0
          /\ calls[k].remaining_levels <= max_level - 1

\* the colour after colour c (RED has none)
Advanced(c) ==
    CASE c = "EMPTY"  -> "GREEN"
      [] c = "GREEN"  -> "YELLOW"
      [] c = "YELLOW" -> "RED"
      [] OTHER        -> "NONE"

\* the step applies a move of possible_moves: the cell of the move, and the
\* canonical index of its class, is EMPTY (three-in-a-row) or not RED
\* (stoplight) before the step, do_move does not panic, exactly that cell
\* changes, and a stoplight cell goes to the next colour
LegalMoveStep ==
    (pc = "to_move" /\ pc' = "moved") =>
        /\ state' # Panicked(state'.last_player)
        /\ \A i \in BoardIndices \ {index'} : state'.cells[i] = state.cells[i]
        /\ IF strategy.game.kind = "ttt"
           THEN /\ state.cells[index'] = "EMPTY"
                /\ state.cells[canonical'] = "EMPTY"
                /\ state'.cells[index'] = CellStateFrom(state'.last_player)
           ELSE /\ state.cells[index'] # "RED"
                /\ state.cells[canonical'] # "RED"
                /\ state'.cells[index'] = Advanced(state.cells[index'])

\* C27: from any board every move of possible_moves of the three-in-a-row
\* adapter targets an EMPTY cell and every move of the stoplight adapter a
\* cell that is not RED, also with the canonical index of its class in place
\* of its index; do_move never takes its panic branch, and a stoplight cell
\* only goes EMPTY -> GREEN -> YELLOW -> RED
C27_NoIllegalMove == [][LegalMoveStep]_vars

\* a stoplight move made a cell RED on a board that has a RED cell already
\* (which possible_moves had to skip)
C27_Witness ==
    /\ pc = "moved"
    /\ strategy.game.kind = "stoplight"
    /\ state.cells[index] = "RED"
    /\ \E i \in BoardIndices \ {index} : state.cells[i] = "RED"
    /\ canonical = index

\* C29: whenever a root move has been scored and when the search has
\* returned, by score_possible_moves or by the in-place all_moves_scored, the
\* root state is what it was before the call; in the in-place search every
\* node's evaluation leaves the state as it found it (every do_move is undone,
\* also where a cutoff leaves the loop)
C29_StateUnchanged ==
    (pc \in {"scoring", "scored", "scoring_in_place", "scored_in_place"}) =>
        /\ state = TakeRoot
        /\ pc \in {"scoring_in_place", "scored_in_place"} =>
              \A k \in 1..Len(calls) : calls[k].after = calls[k].before

\* the in-place search has returned; in the evaluation of the last root move
\* a node made moves below another node that made moves, and a node left its
\* loop by the cutoff with moves untried
C29_Witness ==
    /\ pc = "scored_in_place"
    /\ state = TakeRoot
    /\ Len(scored) >= 2
    /\ \E j, k \in 1..Len(calls) :
          /\ j < k
          /\ calls[j].exit = "expanded"
          /\ calls[k].exit = "expanded"
          /\ calls[k].before.n < calls[j].before.n
    /\ \E k \in 1..Len(calls) :
          /\ calls[k].exit = "expanded"
          /\ calls[k].visited < Len(take_possible_moves(strategy.game, calls[k].before))

\* C22: with several threads making their first use of the table at once, no
\* lookup fails, the cell once written holds the complete table of all 16
\* axis subsets and no step changes it, and what a thread has observed for a
\* subset is the table of that subset, the same for all threads
C22_LazyInitSafe ==
    (pc = "threads") =>
        /\ \A t \in Threads : threads[t].pc # "failed"
        /\ lazy_table.value # None =>
              /\ DOMAIN lazy_table.value[1] = SUBSET AllAxes
              /\ lazy_table.value[1] = AXIS_TO_CANONICAL_INDICES_3X3
        /\ \A t \in Threads :
              threads[t].pc = "got" =>
                  threads[t].seen = Some(canonical_indices(threads[t].axes))
        /\ \A t, u \in Threads :
              (threads[t].pc = "got" /\ threads[u].pc = "got"
                  /\ threads[t].axes = threads[u].axes) => threads[t].seen = threads[u].seen

\* after the first use, two threads hold the table of the same subset, the
\* one the composition of the horizontal and the diagonal reflection gives
C22_Witness ==
    /\ pc = "threads"
    /\ lazy_table.once = "COMPLETE"
    /\ \E t, u \in Threads :
          /\ t # u
          /\ threads[t].pc = "got"
          /\ threads[t].axes = {"DiagonalTopBottom", "Horizontal"}
          /\ threads[t].seen[1][8] = 0
          /\ threads[u].pc = "got"
          /\ threads[u].axes = threads[t].axes

=============================================================================
